---------------------------- MODULE Spec2Model ----------------------------
(***************************************************************************)
(* Deadline-compliance correlation engine of the hackathon bot             *)
(* (tracker/utils.py) and the chat handler that drives it                  *)
(* (tracker/telegram/bot.py).                                              *)
(*                                                                         *)
(* Python values are modelled as follows.  A dict is a TLA+ function whose *)
(* DOMAIN is the set of keys present; d.get(k, default) is Get(d,k,def).   *)
(* A dict-valued field that is None or {} is the empty function << >>.     *)
(* A string-valued field that is None is the string None.  A timestamp     *)
(* string "%Y-%m-%dT%H:%M:%SZ" is the tuple of its six numeric fields and  *)
(* the empty string is << >>.  Time is kept to the second, and now is the  *)
(* same at every call of datetime.now() of one run.                        *)
(***************************************************************************)
EXTENDS Integers, Sequences, FiniteSets, TLC

VARIABLES
    now,               \* value returned by datetime.now() during the run
    \* ---- the frame of get_issues_without_pull_requests now on the thread
    ppc,               \* position inside the pass
    repo,              \* repository the two URLs of the pass point to
    issues,            \* local `issues`
    idx,               \* index of the issue whose events are being fetched
    pull_requests,     \* local `pull_requests`
    result,            \* value returned by the pass
    failed,            \* fetches of the pass that took the except branch
    open_pulls,        \* pull requests open upstream when the pass asked
    \* ---- the event loop of the bot
    running,           \* session whose handler holds the loop thread, or Nobody
    update,            \* session -> text of its message not yet handled
    hpc,               \* session -> position of its handler coroutine
    all_repositories,  \* session -> local `all_repositories`
    ridx,              \* session -> index of the repository being processed
    replies,           \* session -> messages sent with msg.answer, in order
    \* ---- a single call of one engine function
    call,              \* the call: function name and arguments
    ret                \* what it returned

vars == << now, ppc, repo, issues, idx, pull_requests, result, failed,
           open_pulls, running, update, hpc, all_repositories, ridx, replies,
           call, ret >>

passVars == << ppc, repo, issues, idx, pull_requests, result, failed, open_pulls >>
botVars  == << running, update, hpc, all_repositories, ridx, replies >>
unitVars == << call, ret >>

-----------------------------------------------------------------------------
(* Python values *)

None == "None"

Get(d, k, default) == IF k \in DOMAIN d THEN d[k] ELSE default

Min(a, b) == IF a < b THEN a ELSE b

Sign(n) == IF n < 0 THEN -1 ELSE 1

Abs(n) == IF n < 0 THEN -n ELSE n

SeqsUpTo(S, n) == UNION { [1..k -> S] : k \in 0..n }

-----------------------------------------------------------------------------
(* datetime: the proleptic Gregorian calendar, counted from EpochYear *)

EpochYear == 2020

SecondsPerDay == 24 * 3600

IsLeap(y) == (y % 4 = 0 /\ y % 100 # 0) \/ y % 400 = 0

DaysInMonth(y, m) ==
    IF m = 2 THEN (IF IsLeap(y) THEN 29 ELSE 28)
    ELSE IF m \in {4, 6, 9, 11} THEN 30 ELSE 31

RECURSIVE DaysBeforeMonth(_, _)
DaysBeforeMonth(y, m) ==
    IF m = 1 THEN 0 ELSE DaysBeforeMonth(y, m - 1) + DaysInMonth(y, m - 1)

DaysBeforeYear(y) ==
    (y - 1) * 365 + (y - 1) \div 4 - (y - 1) \div 100 + (y - 1) \div 400

ToOrdinal(dt) ==
    DaysBeforeYear(dt.year) - DaysBeforeYear(EpochYear)
        + DaysBeforeMonth(dt.year, dt.month) + dt.day

\* seconds from the epoch to the naive datetime dt
Seconds(dt) ==
    ToOrdinal(dt) * SecondsPerDay + dt.hour * 3600 + dt.minute * 60 + dt.second

\* datetime.strptime(s, "%Y-%m-%dT%H:%M:%SZ")
strptime(s) ==
    [year |-> s[1], month |-> s[2], day |-> s[3],
     hour |-> s[4], minute |-> s[5], second |-> s[6]]

\* dt1 - dt2 as a datetime.timedelta: days and seconds, 0 <= seconds < 86400
timedelta(dt1, dt2) ==
    LET total == Seconds(dt1) - Seconds(dt2)
    IN  [days |-> total \div SecondsPerDay, seconds |-> total % SecondsPerDay]

\* dt + relativedelta(months = n): the day is clamped to the month's length
AddMonths(dt, n) ==
    LET i == dt.year * 12 + (dt.month - 1) + n
        y == i \div 12
        m == (i % 12) + 1
    IN  [dt EXCEPT !.year = y, !.month = m,
                   !.day = Min(DaysInMonth(y, m), dt.day)]

\* the loop of relativedelta.__init__ that takes back an overshot month
RECURSIVE AdjustMonths(_, _, _)
AdjustMonths(dt1, dt2, months) ==
    LET dtm == AddMonths(dt2, months)
    IN  IF Seconds(dt1) < Seconds(dt2)
        THEN IF Seconds(dt1) > Seconds(dtm)
             THEN AdjustMonths(dt1, dt2, months + 1) ELSE months
        ELSE IF Seconds(dt1) < Seconds(dtm)
             THEN AdjustMonths(dt1, dt2, months - 1) ELSE months

\* relativedelta(dt1 = dt1, dt2 = dt2): years, months, then what is left over
\* as days and a rest of less than a day
relativedelta(dt1, dt2) ==
    LET months == AdjustMonths(dt1, dt2,
                      (dt1.year - dt2.year) * 12 + (dt1.month - dt2.month))
        delta  == Seconds(dt1) - Seconds(AddMonths(dt2, months))
        sm     == Sign(months)
        sd     == Sign(delta)
    IN  [years   |-> sm * (Abs(months) \div 12),
         months  |-> sm * (Abs(months) % 12),
         days    |-> sd * (Abs(delta) \div SecondsPerDay),
         seconds |-> sd * (Abs(delta) % SecondsPerDay)]

\* relativedelta.__bool__
Nonzero(rd) == rd.years # 0 \/ rd.months # 0 \/ rd.days # 0 \/ rd.seconds # 0

-----------------------------------------------------------------------------
(* requests: how one GET ends *)

\* "ok": a 2xx response whose body parses.  The others are raised by
\* requests.get (Timeout, ConnectionError), by raise_for_status (HTTPError)
\* and by response.json (requests.exceptions.JSONDecodeError).
Outcomes == {"ok", "timeout", "connection_error", "http_error", "invalid_json"}

\* faulty variant: an except clause that names HTTPError only
RequestException_http_only(outcome) == outcome = "http_error"

\* except requests.exceptions.RequestException: all four are subclasses of it
RequestException(outcome) ==
    outcome \in {"timeout", "connection_error", "http_error", "invalid_json"}

Return(v) == [raised |-> FALSE, value |-> v]

Raise(e) == [raised |-> TRUE, value |-> e]

-----------------------------------------------------------------------------
(* tracker/utils.py *)

\* faulty variant: the first "assigned" event is kept, later ones are dropped
RECURSIVE assignment_info_first(_, _)
assignment_info_first(events, info) ==
    IF events = << >> THEN info
    ELSE LET event == Head(events)
         IN  assignment_info_first(Tail(events),
                 IF Get(event, "event", None) = "assigned" /\ info = << >>
                 THEN [assignee    |-> Get(Get(event, "assignee", << >>), "login", ""),
                       assigned_at |-> Get(event, "created_at", << >>)]
                 ELSE info)

\* the loop over the timeline: an "assigned" event overwrites both keys
RECURSIVE assignment_info(_, _)
assignment_info(events, info) ==
    IF events = << >> THEN info
    ELSE LET event == Head(events)
         IN  assignment_info(Tail(events),
                 IF Get(event, "event", None) = "assigned"
                 THEN [assignee    |-> Get(Get(event, "assignee", << >>), "login", ""),
                       assigned_at |-> Get(event, "created_at", << >>)]
                 ELSE info)

\* check_issue_assignment_events, given how the GET of events_url ends
check_issue_assignment_events(outcome, events) ==
    IF outcome = "ok" THEN Return(assignment_info(events, << >>))
    ELSE IF RequestException(outcome) THEN Return(<< >>)
    ELSE Raise(outcome)

\* faulty variant: the draft flag is not looked at
open_assigned_with_drafts(issue) ==
    /\ Get(issue, "state", None) = "open"
    /\ Get(issue, "assignee", << >>) # << >>
    /\ Get(issue, "pull_request", << >>) = << >>

\* the lambda handed to filter()
open_assigned(issue) ==
    /\ Get(issue, "state", None) = "open"
    /\ Get(issue, "assignee", << >>) # << >>
    /\ ~ Get(issue, "draft", FALSE)
    /\ Get(issue, "pull_request", << >>) = << >>

\* get_all_open_and_assigned_issues, given how the GET of the issues URL ends
get_all_open_and_assigned_issues(outcome, body) ==
    IF outcome = "ok" THEN Return(SelectSeq(body, open_assigned))
    ELSE IF RequestException(outcome) THEN Return(<< >>)
    ELSE Raise(outcome)

\* faulty variant: whatever the endpoint holds is returned, failed GET or not
get_all_open_pull_requests_unchecked(outcome, body) == Return(body)

\* get_all_open_pull_requests, given how the GET of the pulls URL ends
get_all_open_pull_requests(outcome, body) ==
    IF outcome = "ok" THEN Return(body)
    ELSE IF RequestException(outcome) THEN Return(<< >>)
    ELSE Raise(outcome)

\* issue["days"]: relativedelta(now, assigned_at).days, 0 without a timestamp
elapsed_days(t, info) ==
    LET assigned_at == Get(info, "assigned_at", << >>)
        time_delta  == relativedelta(t, strptime(assigned_at))
    IN  IF assigned_at # << >> /\ Nonzero(time_delta) THEN time_delta.days ELSE 0

\* the body of the first loop of get_issues_without_pull_requests
annotate(issue, info, t) ==
    [k \in DOMAIN issue \cup {"assignment_info", "days"} |->
        IF k = "assignment_info" THEN info
        ELSE IF k = "days" THEN elapsed_days(t, info)
        ELSE issue[k]]

\* the list comprehension: logins of the pull requests that have one
pull_requests_users(pulls) ==
    { Get(Get(pulls[i], "user", << >>), "login", None) : i \in DOMAIN pulls }
        \ {"", None}

\* faulty variant: the threshold lets same-day assignments through
without_pull_request_no_grace(issue, users) ==
    /\ Get(issue, "days", 0) >= 0
    /\ Get(Get(issue, "assignee", << >>), "login", None) \notin users

\* faulty variant: the handle looked up is the one of the assignment event
without_pull_request_by_event(issue, users) ==
    /\ Get(issue, "days", 0) >= 1
    /\ Get(Get(issue, "assignment_info", << >>), "assignee", None) \notin users

\* the condition of the second loop
without_pull_request(issue, users) ==
    /\ Get(issue, "days", 0) >= 1
    /\ Get(Get(issue, "assignee", << >>), "login", None) \notin users

\* the second loop: the issues appended to result, in order
non_compliant(annotated, pulls) ==
    LET users == pull_requests_users(pulls)
        keep(issue) == without_pull_request(issue, users)
    IN  SelectSeq(annotated, keep)

\* get_time_before_deadline, given how the GET of events_url ends:
\* the string returned, and issue["assigned_days"] when it is set
get_time_before_deadline(issue, outcome, events, t) ==
    LET fetched     == check_issue_assignment_events(outcome, events)
        assigned_at == Get(fetched.value, "assigned_at", << >>)
        deadline    == Get(issue, "due_on", << >>)
        time_left   == timedelta(strptime(deadline), t)
        days        == relativedelta(t, strptime(assigned_at)).days
    IN  IF fetched.raised THEN fetched
        ELSE IF assigned_at = << >>
        THEN Return([text |-> "This issue is not assigned."])
        ELSE IF deadline = << >>
        THEN Return([text |-> "No deadline set for this issue."])
        ELSE IF time_left.days > 0
        THEN Return([text |-> "days remaining", days |-> time_left.days,
                     assigned_days |-> days])
        ELSE IF time_left.seconds > 0
        THEN Return([text |-> "hours minutes remaining",
                     hours   |-> time_left.seconds \div 3600,
                     minutes |-> (time_left.seconds % 3600) \div 60,
                     assigned_days |-> days])
        ELSE Return([text |-> "Deadline has passed.", assigned_days |-> days])

-----------------------------------------------------------------------------
(* Bounds and the inputs drawn within them *)

MaxIssues   == 2    \* items in one issues response
MaxTimeline == 2    \* events in one timeline of a pass
MaxPulls    == 1    \* pull requests in one pulls response
MaxRepos    == 2    \* repositories one chat identity tracks
MaxItems    == 2    \* items handed to the issues filter alone
MaxEvents   == 3    \* events handed to the reconstructor alone

Stamp(y, mo, d, h, mi, sec) == << y, mo, d, h, mi, sec >>

Clock == strptime(Stamp(2024, 3, 15, 12, 0, 0))

\* assignment timestamps, by their distance from Clock
AtClock     == Stamp(2024, 3, 15, 12, 0, 0)
HourAgo     == Stamp(2024, 3, 15, 11, 0, 0)
AlmostDay   == Stamp(2024, 3, 14, 12, 0, 1)
DayAgo      == Stamp(2024, 3, 14, 12, 0, 0)
ThreeDays   == Stamp(2024, 3, 12, 12, 0, 0)
ThirtyDays  == Stamp(2024, 2, 14, 12, 0, 0)
MonthAgo    == Stamp(2024, 2, 15, 12, 0, 0)
YearAgo     == Stamp(2023, 3, 15, 12, 0, 0)

AssignedAt == { AtClock, HourAgo, AlmostDay, DayAgo, ThreeDays, ThirtyDays,
                MonthAgo, YearAgo }

Assigned(login, at) ==
    [event |-> "assigned", assignee |-> [login |-> login], created_at |-> at]

Labeled(at) == [event |-> "labeled", created_at |-> at]

Issue(number, login) ==
    [number |-> number, title |-> "issue", state |-> "open",
     assignee |-> [login |-> login], events_url |-> number]

\* a pull request listed by the issues endpoint
PullItem(number, login) ==
    [number |-> number, title |-> "pull", state |-> "open",
     assignee |-> [login |-> login], events_url |-> number,
     pull_request |-> [url |-> number]]

Pull(login) == [state |-> "open", user |-> [login |-> login]]

Sampled == "*"      \* a repository about which nothing is fixed

Repos == {"acme/widget", "acme/gadget", "acme/empty"}

\* bodies the issues endpoint of repository r may serve
IssueBodies(r) ==
    CASE r = "acme/widget" -> { << Issue(1, "alice") >> }
      [] r = "acme/gadget" -> { << Issue(1, "alice"), PullItem(2, "alice"),
                                  Issue(3, "bob") >> }
      [] r = "acme/empty"  -> { << >> }
      [] OTHER ->
            LET Item(k, kind) == IF kind = "pull" THEN PullItem(k, "bob")
                                 ELSE Issue(k, kind)
            IN  { [k \in 1..n |-> Item(k, f[k])] :
                    f \in [1..MaxIssues -> {"alice", "bob", "pull"}],
                    n \in 0..MaxIssues }

\* timelines the events endpoint of an issue of repository r may serve
Timelines(r, issue) ==
    CASE r = "acme/widget" -> { << Assigned("alice", ThreeDays) >> }
      [] r = "acme/gadget" ->
            IF issue.number = 1
            THEN { << Assigned("bob", YearAgo), Assigned("alice", ThreeDays) >> }
            ELSE { << Labeled(ThreeDays), Assigned("bob", DayAgo) >> }
      [] r = "acme/empty"  -> { << >> }
      [] OTHER ->
            SeqsUpTo({ Assigned("alice", at) : at \in AssignedAt }
                        \cup { Assigned("bob", ThreeDays), Labeled(DayAgo) },
                     MaxTimeline)

\* bodies the pulls endpoint of repository r may serve
PullBodies(r) ==
    CASE r = "acme/widget" -> { << >> }
      [] r = "acme/gadget" -> { << Pull("alice") >> }
      [] r = "acme/empty"  -> { << >> }
      [] OTHER ->
            SeqsUpTo({ Pull("alice"), Pull("bob"), [state |-> "open"] }, MaxPulls)

\* how a GET may end: with one of the bodies, or with a failure and no body
Responses(bodies) ==
    [outcome : {"ok"}, body : bodies] \cup [outcome : Outcomes \ {"ok"}, body : {<< >>}]

\* how a GET may end, and what the endpoint holds when it does
Held(bodies) == [outcome : Outcomes, body : bodies]

-----------------------------------------------------------------------------
(* The event loop: sessions and their handler coroutines *)

Sessions == {"u1", "u2"}

Nobody == "nobody"

NoFailure == [issues |-> FALSE, events |-> {}, pulls |-> FALSE]

InPass == ppc \in {"issues", "events", "pulls"}

\* an exception leaving get_issues_without_pull_requests: it ends the handler
\* that made the call
Propagate ==
    /\ ppc' = "raised"
    /\ UNCHANGED << repo, issues, idx, pull_requests, result, failed, open_pulls >>
    /\ IF running = Nobody
       THEN UNCHANGED botVars
       ELSE /\ hpc' = [hpc EXCEPT ![running] = "crashed"]
            /\ running' = Nobody
            /\ UNCHANGED << update, all_repositories, ridx, replies >>

\* entry of get_issues_without_pull_requests: the thread blocks in the GET
\* of the issues URL
EnterPass(r) ==
    /\ ppc' = "issues"
    /\ repo' = r
    /\ issues' = << >>
    /\ idx' = 0
    /\ pull_requests' = << >>
    /\ result' = << >>
    /\ failed' = NoFailure
    /\ open_pulls' = << >>

-----------------------------------------------------------------------------
(* get_issues_without_pull_requests, one step per blocking GET *)

\* a caller other than the bot calls the pass on the sampled repository
PassCall ==
    /\ ppc = "idle"
    /\ running = Nobody
    /\ EnterPass(Sampled)
    /\ UNCHANGED << now, botVars, unitVars >>

\* the GET of the issues URL ends: get_all_open_and_assigned_issues returns
\* and the first loop starts
IssuesResponse ==
    /\ ppc = "issues"
    /\ \E resp \in Responses(IssueBodies(repo)) :
          LET got == get_all_open_and_assigned_issues(resp.outcome, resp.body)
          IN  IF got.raised THEN Propagate
              ELSE /\ issues' = got.value
                   /\ failed' = [failed EXCEPT !.issues = (resp.outcome # "ok")]
                   /\ idx' = IF got.value = << >> THEN 0 ELSE 1
                   /\ ppc' = IF got.value = << >> THEN "pulls" ELSE "events"
                   /\ UNCHANGED << repo, pull_requests, result, open_pulls, botVars >>
    /\ UNCHANGED << now, unitVars >>

\* the GET of issues[idx]'s events_url ends: the issue is annotated with its
\* assignment_info and days, and the loop moves on
EventsResponse ==
    /\ ppc = "events"
    /\ \E resp \in Responses(Timelines(repo, issues[idx])) :
          LET got == check_issue_assignment_events(resp.outcome, resp.body)
          IN  IF got.raised THEN Propagate
              ELSE /\ issues' = [issues EXCEPT ![idx] = annotate(@, got.value, now)]
                   /\ failed' = IF resp.outcome = "ok" THEN failed
                                ELSE [failed EXCEPT !.events = @ \cup {idx}]
                   /\ idx' = IF idx < Len(issues) THEN idx + 1 ELSE idx
                   /\ ppc' = IF idx < Len(issues) THEN "events" ELSE "pulls"
                   /\ UNCHANGED << repo, pull_requests, result, open_pulls, botVars >>
    /\ UNCHANGED << now, unitVars >>

\* the rest of the pass once the GET of the pulls URL has ended
Correlate(resp) ==
    LET got == get_all_open_pull_requests(resp.outcome, resp.body)
    IN  /\ ~ got.raised
        /\ open_pulls' = resp.body
        /\ pull_requests' = got.value
        /\ failed' = [failed EXCEPT !.pulls = (resp.outcome # "ok")]
        /\ result' = non_compliant(issues, got.value)
        /\ ppc' = "returned"
        /\ UNCHANGED << repo, issues, idx >>

\* the GET of the pulls URL ends and the pass returns to its caller
PullsResponse ==
    /\ ppc = "pulls"
    /\ running = Nobody
    /\ \E resp \in Held(PullBodies(repo)) :
          IF get_all_open_pull_requests(resp.outcome, resp.body).raised
          THEN Propagate
          ELSE Correlate(resp) /\ UNCHANGED botVars
    /\ UNCHANGED << now, unitVars >>

InitBot ==
    /\ running = Nobody
    /\ update = [s \in Sessions |-> ""]
    /\ hpc = [s \in Sessions |-> "idle"]
    /\ all_repositories = [s \in Sessions |-> << >>]
    /\ ridx = [s \in Sessions |-> 0]
    /\ replies = [s \in Sessions |-> << >>]

InitPass ==
    /\ ppc = "idle"
    /\ repo = Sampled
    /\ issues = << >>
    /\ idx = 0
    /\ pull_requests = << >>
    /\ result = << >>
    /\ failed = NoFailure
    /\ open_pulls = << >>

InitUnit ==
    /\ call = << >>
    /\ ret = << >>

\* one correlation pass against a tracking service in any state within bounds
PassInit == now = Clock /\ InitPass /\ InitBot /\ InitUnit

PassNext == PassCall \/ IssuesResponse \/ EventsResponse \/ PullsResponse

SpecPass == PassInit /\ [][PassNext]_vars

-----------------------------------------------------------------------------
(* tracker/telegram/bot.py: handlers as coroutines on one event loop.  A   *)
(* handler runs on the loop thread from one await to the next; a step that *)
(* resumes or starts a handler needs the thread to be free.                *)

MissedDeadlines == "get missed deadlines"

LoopFree == running = Nobody

\* rows of repository_set for a chat identity: no repository twice
TrackedLists ==
    { l \in SeqsUpTo(Repos, MaxRepos) : \A i, j \in DOMAIN l : l[i] = l[j] => i = j }

Greeting == [kind |-> "greeting"]

\* the text built for one repository: one block per issue, or the marker
Message(r, found) ==
    [kind       |-> "report",
     repository |-> r,
     entries    |-> [i \in DOMAIN found |->
                        [title |-> Get(found[i], "title", ""),
                         user  |-> Get(Get(found[i], "assignee", << >>), "login", ""),
                         days  |-> found[i].days]],
     no_missed_deadlines |-> (found = << >>)]

\* a user sends a message to the bot
Send(s) ==
    /\ hpc[s] = "idle"
    /\ update[s] = ""
    /\ \E text \in {"/start", MissedDeadlines} :
          update' = [update EXCEPT ![s] = text]
    /\ UNCHANGED << now, passVars, running, hpc, all_repositories, ridx, replies,
                    unitVars >>

\* start_message, up to its await of message.answer
StartMessage(s) ==
    /\ LoopFree
    /\ update[s] = "/start"
    /\ update' = [update EXCEPT ![s] = ""]
    /\ replies' = [replies EXCEPT ![s] = Append(@, Greeting)]
    /\ hpc' = [hpc EXCEPT ![s] = "await_greeting"]
    /\ UNCHANGED << now, passVars, running, all_repositories, ridx, unitVars >>

\* start_message resumes after message.answer and ends
GreetingSent(s) ==
    /\ LoopFree
    /\ hpc[s] = "await_greeting"
    /\ hpc' = [hpc EXCEPT ![s] = "greeted"]
    /\ UNCHANGED << now, passVars, running, update, all_repositories, ridx,
                    replies, unitVars >>

\* send_deprecated_issue_assignees, up to its await of get_all_repostitories
HandlerStart(s) ==
    /\ LoopFree
    /\ update[s] = MissedDeadlines
    /\ update' = [update EXCEPT ![s] = ""]
    /\ hpc' = [hpc EXCEPT ![s] = "await_repos"]
    /\ UNCHANGED << now, passVars, running, all_repositories, ridx, replies,
                    unitVars >>

\* faulty variant: the handler returns after its first reply
NextRepository_once(s, list, k) ==
    IF k <= Min(Len(list), 1)
    THEN /\ ridx' = [ridx EXCEPT ![s] = k]
         /\ hpc' = [hpc EXCEPT ![s] = "in_pass"]
         /\ running' = s
         /\ EnterPass(list[k])
    ELSE /\ hpc' = [hpc EXCEPT ![s] = "done"]
         /\ UNCHANGED << ridx, running, passVars >>

\* the handler goes on to repository number k of its list, or ends after the
\* last: the call of get_issues_without_pull_requests is made on the loop
\* thread, which blocks in the first GET
NextRepository(s, list, k) ==
    IF k <= Len(list)
    THEN /\ ridx' = [ridx EXCEPT ![s] = k]
         /\ hpc' = [hpc EXCEPT ![s] = "in_pass"]
         /\ running' = s
         /\ EnterPass(list[k])
    ELSE /\ hpc' = [hpc EXCEPT ![s] = "done"]
         /\ UNCHANGED << ridx, running, passVars >>

\* the handler resumes with the tracked repositories and enters its loop
ReposLoaded(s) ==
    /\ LoopFree
    /\ hpc[s] = "await_repos"
    /\ \E list \in TrackedLists :
          /\ all_repositories' = [all_repositories EXCEPT ![s] = list]
          /\ NextRepository(s, list, 1)
    /\ UNCHANGED << now, update, replies, unitVars >>

\* the GET of the pulls URL ends: the pass returns into the handler, which
\* builds the message and awaits msg.answer
HandlerPullsResponse(s) ==
    /\ ppc = "pulls"
    /\ running = s
    /\ \E resp \in Held(PullBodies(repo)) :
          IF get_all_open_pull_requests(resp.outcome, resp.body).raised
          THEN Propagate
          ELSE /\ Correlate(resp)
               /\ replies' = [replies EXCEPT ![s] = Append(@,
                      Message(repo, non_compliant(issues,
                          get_all_open_pull_requests(resp.outcome, resp.body).value)))]
               /\ hpc' = [hpc EXCEPT ![s] = "await_answer"]
               /\ running' = Nobody
               /\ UNCHANGED << update, all_repositories, ridx >>
    /\ UNCHANGED << now, unitVars >>

\* the handler resumes after msg.answer: next iteration of its loop
AnswerSent(s) ==
    /\ LoopFree
    /\ hpc[s] = "await_answer"
    /\ NextRepository(s, all_repositories[s], ridx[s] + 1)
    /\ UNCHANGED << now, update, all_repositories, replies, unitVars >>

\* what the loop can do for session s
HandlerStep(s) ==
    \/ StartMessage(s)
    \/ GreetingSent(s)
    \/ HandlerStart(s)
    \/ ReposLoaded(s)
    \/ AnswerSent(s)
    \/ HandlerPullsResponse(s)

\* the bot polling for two chat sessions
BotInit == now = Clock /\ InitPass /\ InitBot /\ InitUnit

BotNext ==
    \/ \E s \in Sessions : Send(s)
    \/ \E s \in Sessions : HandlerStep(s)
    \/ IssuesResponse
    \/ EventsResponse

SpecBot == BotInit /\ [][BotNext]_vars

-----------------------------------------------------------------------------
(* One call of one engine function on inputs drawn within the bounds *)

\* items of an issues response: every combination of the four filtered fields
Items ==
    { [number |-> 1, state |-> st, assignee |-> a] @@ d @@ p :
        st \in {"open", "closed"},
        a  \in {<< >>, [login |-> "alice"]},
        d  \in {<< >>, [draft |-> FALSE], [draft |-> TRUE]},
        p  \in {<< >>, [pull_request |-> [url |-> 1]]} }

\* events of a timeline: kind, assignee and timestamp vary
Events ==
    { [event |-> kind, created_at |-> at] @@ a :
        kind \in {"assigned", "unassigned"},
        at   \in {DayAgo, ThreeDays},
        a    \in {<< >>, [assignee |-> [login |-> "alice"]],
                         [assignee |-> [login |-> "bob"]]} }

\* deadlines around Clock, and no deadline
DueOn ==
    { Stamp(2024, 3, 18, 12, 0, 0), Stamp(2024, 3, 16, 12, 0, 0),
      Stamp(2024, 3, 16, 11, 59, 59), Stamp(2024, 3, 15, 14, 0, 0),
      Stamp(2024, 3, 15, 12, 0, 1), Stamp(2024, 3, 15, 12, 0, 0),
      Stamp(2024, 3, 15, 11, 59, 59), Stamp(2024, 3, 15, 11, 0, 0),
      Stamp(2024, 3, 14, 12, 0, 0), Stamp(2024, 3, 14, 11, 0, 0),
      Stamp(2024, 3, 12, 12, 0, 0) }

Calls ==
    [fn : {"get_all_open_and_assigned_issues"}, outcome : Outcomes,
     body : SeqsUpTo(Items, MaxItems)]
    \cup
    [fn : {"check_issue_assignment_events"}, outcome : Outcomes,
     events : SeqsUpTo(Events, MaxEvents)]
    \cup
    [fn : {"get_time_before_deadline"}, outcome : Outcomes,
     issue : { [number |-> 1] } \cup { [number |-> 1, due_on |-> d] : d \in DueOn },
     events : { << >>, << Assigned("alice", DayAgo) >>,
                << Assigned("bob", YearAgo), Assigned("alice", ThreeDays) >> }]

NotReturned == ret = << >>

CallIssues ==
    /\ NotReturned
    /\ call.fn = "get_all_open_and_assigned_issues"
    /\ ret' = get_all_open_and_assigned_issues(call.outcome, call.body)
    /\ UNCHANGED << now, passVars, botVars, call >>

CallEvents ==
    /\ NotReturned
    /\ call.fn = "check_issue_assignment_events"
    /\ ret' = check_issue_assignment_events(call.outcome, call.events)
    /\ UNCHANGED << now, passVars, botVars, call >>

CallDeadline ==
    /\ NotReturned
    /\ call.fn = "get_time_before_deadline"
    /\ ret' = get_time_before_deadline(call.issue, call.outcome, call.events, now)
    /\ UNCHANGED << now, passVars, botVars, call >>

UnitInit == now = Clock /\ InitPass /\ InitBot /\ call \in Calls /\ ret = << >>

UnitNext == CallIssues \/ CallEvents \/ CallDeadline

SpecUnit == UnitInit /\ [][UnitNext]_vars

-----------------------------------------------------------------------------
(* Properties *)

Returned == ppc = "returned"

\* the assignment timestamp reconstructed for an annotated issue, << >> if none
Stamped(issue) == Get(Get(issue, "assignment_info", << >>), "assigned_at", << >>)

\* seconds elapsed at `now` since timestamp string `at`
Age(at) == Seconds(now) - Seconds(strptime(at))

\* authors of the pull requests of a list
Authors(pulls) ==
    { pulls[i].user.login : i \in { j \in DOMAIN pulls : "user" \in DOMAIN pulls[j] } }

Login(issue) == issue.assignee.login

\* positions of the result that hold the issue
Reported(issue) == { j \in DOMAIN result : result[j].number = issue.number }

AtLeastOneDay(issue) == Get(issue, "days", 0) >= 1

\* C1: every fetched issue assigned at least one whole day before now whose
\* assignee authored none of the fetched pull requests is in the result
\* exactly once, with days = the whole days elapsed since the assignment
C1_OverdueReportedOnce ==
    Returned =>
        \A i \in DOMAIN issues :
            LET at == Stamped(issues[i])
            IN  (/\ at # << >>
                 /\ Age(at) >= SecondsPerDay
                 /\ Login(issues[i]) \notin Authors(pull_requests))
                => /\ Cardinality(Reported(issues[i])) = 1
                   /\ \A j \in Reported(issues[i]) :
                         result[j].days = Age(at) \div SecondsPerDay

C3_NoAuthorReported ==
    Returned =>
        \A j \in DOMAIN result : Login(result[j]) \notin Authors(pull_requests)

C3_Witness ==
    /\ Returned
    /\ \E i \in DOMAIN issues :
          /\ Stamped(issues[i]) = ThirtyDays
          /\ issues[i].days >= 1
          /\ Login(issues[i]) \in Authors(pull_requests)
          /\ Reported(issues[i]) = {}
    /\ result # << >>

\* C4: a failed GET of a pass is caught where it is made and yields an empty
\* result there; no exception leaves the pass, and a pass whose issues GET
\* failed returns the empty list
C4_FailuresSwallowed ==
    /\ ppc # "raised"
    /\ failed.issues => issues = << >>
    /\ \A i \in failed.events :
          (i < idx \/ ppc \in {"pulls", "returned"})
              => issues[i].assignment_info = << >>
    /\ (Returned /\ failed.pulls) => pull_requests = << >>
    /\ (Returned /\ failed.issues) => result = << >>

C4_Witness ==
    \/ Returned /\ failed.issues /\ failed.pulls
    \/ Returned /\ failed.events # {} /\ failed.pulls /\ open_pulls # << >>

\* C10: a pass whose pulls GET failed reports every fetched issue with
\* days >= 1, as a pass does that was served an empty list of pull requests
C10_FailedPullsAsNoPulls ==
    (Returned /\ failed.pulls) =>
        /\ result = SelectSeq(issues, AtLeastOneDay)
        /\ result = non_compliant(issues, << >>)

C10_Witness ==
    /\ Returned
    /\ failed.pulls
    /\ ~ failed.issues
    /\ \E i \in DOMAIN issues :
          /\ Login(issues[i]) \in Authors(open_pulls)
          /\ Reported(issues[i]) # {}

-----------------------------------------------------------------------------

Called(fn) == call # << >> /\ call.fn = fn /\ ret # << >>

\* the four conditions of an assigned open issue, on the fields of an item
Qualifies(item) ==
    /\ item.state = "open"
    /\ item.assignee # << >>
    /\ ("draft" \in DOMAIN item => item.draft = FALSE)
    /\ "pull_request" \notin DOMAIN item

\* C9: on a successful GET the issues fetch returns, in response order,
\* exactly the items that are open, assigned, not drafts and not pull requests
C9_ExactlyTheQualifying ==
    (Called("get_all_open_and_assigned_issues") /\ call.outcome = "ok") =>
        /\ ~ ret.raised
        /\ ret.value = SelectSeq(call.body, Qualifies)

C9_Witness ==
    /\ Called("get_all_open_and_assigned_issues")
    /\ call.outcome = "ok"
    /\ Len(call.body) = 2
    /\ Len(ret.value) = 1
    /\ Get(call.body[1], "draft", FALSE)
    /\ ret.value[1] = call.body[2]

\* positions of the "assigned" events of a timeline
AssignedAtPositions(events) ==
    { i \in DOMAIN events : events[i].event = "assigned" }

Last(S) == CHOOSE i \in S : \A j \in S : j <= i

C5_ReportByTimeLeft ==
    (/\ Called("get_time_before_deadline")
     /\ call.outcome = "ok"
     /\ AssignedAtPositions(call.events) # {}
     /\ "due_on" \in DOMAIN call.issue) =>
        LET left == Seconds(strptime(call.issue.due_on)) - Seconds(now)
            said == ret.value
        IN  /\ left >= SecondsPerDay =>
                  said.text = "days remaining" /\ said.days = left \div SecondsPerDay
            /\ (0 < left /\ left < SecondsPerDay) =>
                  /\ said.text = "hours minutes remaining"
                  /\ said.hours = left \div 3600
                  /\ said.minutes = (left % 3600) \div 60
            /\ left <= 0 => said.text = "Deadline has passed."

-----------------------------------------------------------------------------

Waiting(s) ==
    update[s] # "" \/ hpc[s] \in {"await_greeting", "await_repos", "await_answer"}

\* C7: while the handler of one session is inside a blocking GET of the
\* engine, the loop can run the handler of any other session that has
\* something to do
C7_LoopNotHeld ==
    \A s, t \in Sessions :
        (s # t /\ running = s /\ InPass /\ Waiting(t)) => ENABLED HandlerStep(t)

Reports(s) == [k \in DOMAIN replies[s] |-> replies[s][k].repository]

Prefix(a, b) == Len(a) <= Len(b) /\ \A k \in DOMAIN a : a[k] = b[k]

=============================================================================
